---------------------------- MODULE Spec2Model ----------------------------
(***************************************************************************)
(* Blockwise attention, blockwise feed-forward and blockwise cross-entropy *)
(* of src/llamabpt/bpt.py, as a state machine.                             *)
(*                                                                         *)
(* One behaviour is one call of one of the three functions.  Tensors are   *)
(* modelled with batch = heads = head-dim = 1, so a (batch, seq, heads,    *)
(* dim) tensor is a sequence over its sequence axis.  Sequences are        *)
(* 1-based; the block indices query_chunk_idx / key_chunk_idx keep the     *)
(* 0-based values of the code because the offsets and the causal skip      *)
(* are computed from them.                                                 *)
(*                                                                         *)
(* Arithmetic.  exp is modelled in base 2 in fixed point with FracBits     *)
(* fractional bits: Exp2(x) = 2^(FracBits + x) for -FracBits <= x <= 0 and *)
(* 0 below (the underflow of exp).  Finite scores lie in 0..FracBits, so   *)
(* every rescaling of the online softmax is exact.  Quotients are kept as  *)
(* reduced fractions <<n, d>>.                                             *)
(*                                                                         *)
(* The calls modelled are deterministic (deterministic = True or           *)
(* attn_pdrop = 0), so attn_dropout is None and lines 40-50 and 77-78 do   *)
(* nothing.  float32_logits, precision and policy change no value here.    *)
(***************************************************************************)
EXTENDS Integers, Sequences, FiniteSets, TLC

VARIABLES
    op,         \* which function is called: "attn", "ffn" or "xent"
    pc,         \* position inside the call
    err,        \* the exception that ended the call, or "none"
    args,       \* the arguments of the call
    query,      \* blockwise_attn: query after rearrange (sequence of blocks)
    key,        \* blockwise_attn: key after rearrange
    value,      \* blockwise_attn: value after rearrange
    q_idx,      \* blockwise_attn: query_chunk_idx of the outer scan (0-based)
    k_idx,      \* blockwise_attn: key_chunk_idx of the inner scan (0-based)
    carry,      \* blockwise_attn: Carry of the inner scan, or NoCarry
    folded,     \* blockwise_attn: key blocks folded into carry by summarize_chunk
    res,        \* stacked per-block outputs of the scan
    out,        \* the value returned by the call
    lcarry,     \* blockwise_cross_entropy: (loss, accuracy, num) of the scan
   \* blockwise_ffn / blockwise_cross_entropy: rearranged inputs
    x_idx,      \* blockwise_cross_entropy: index of the next block of the scan
    blocks,     \* blockwise_ffn / blockwise_cross_entropy: rearranged inputs
    pending     \* blockwise_ffn: blocks the scan has not produced yet

vars == <<op, pc, err, args, query, key, value, q_idx, k_idx, carry, folded,
          res, out, lcarry, x_idx, blocks, pending>>

---------------------------------------------------------------------------
(* Bounds *)

MaxLen == 4       \* longest query / key / ffn sequence
MaxTok == 3       \* longest token sequence of the loss
FracBits == 2     \* fixed-point fractional bits = largest finite score

(* Program constants *)

FMin == -1000     \* jnp.finfo(dtype).min, below every finite score
NegInf == -2000   \* -jnp.inf, below FMin
EpsExp == 10      \* the 1e-10 floor of valid_text_length

\* bias = None: no shape, no entries
NoBias == [shape |-> <<>>, at |-> <<>>]
\* no Carry has been built yet
NoCarry == [numerator |-> <<>>, denominator |-> <<>>, max_so_far |-> <<>>]
\* no loss carry has been built yet
NoLossCarry == <<>>
NaN == "NaN"

---------------------------------------------------------------------------
(* Generic helpers *)

Max(a, b) == IF a >= b THEN a ELSE b
Min(a, b) == IF a <= b THEN a ELSE b
Abs(a) == IF a < 0 THEN -a ELSE a

RECURSIVE Gcd(_, _)
Gcd(a, b) == IF b = 0 THEN a ELSE Gcd(b, a % b)

RECURSIVE SumTo(_, _)
\* f[1] + ... + f[n]
SumTo(f, n) == IF n = 0 THEN 0 ELSE f[n] + SumTo(f, n - 1)

RECURSIVE MaxTo(_, _)
\* max(f[1], ..., f[n]), n >= 1
MaxTo(f, n) == IF n = 1 THEN f[1] ELSE Max(f[n], MaxTo(f, n - 1))

\* n / d as a reduced fraction with positive denominator; x / 0 is NaN (or Inf)
Div(n, d) ==
    IF d = 0 THEN NaN
    ELSE LET g == Gcd(Abs(n), Abs(d))
             s == IF d < 0 THEN -1 ELSE 1
         IN  <<(s * n) \div g, (s * d) \div g>>

FracAdd(x, y) == Div(x[1] * y[2] + y[1] * x[2], x[2] * y[2])

OneHot(len, hot) == [i \in 1..len |-> IF i = hot THEN 1 ELSE 0]

Iota(len) == [i \in 1..len |-> i]

---------------------------------------------------------------------------
(* einops.rearrange *)

\* rearrange(t, '(c n) -> n c', c=c): the sequence axis is split with c as the
\* OUTER factor and n as the inner one, s = ci * n_blocks + ni, and the result
\* is indexed by the inner factor first.  Block ni therefore holds the
\* positions ni, ni + n_blocks, ni + 2 n_blocks, ...
RearrangeCN(t, c) ==
    LET n == Len(t) \div c
    IN  [ni \in 1..n |-> [ci \in 1..c |-> t[(ci - 1) * n + ni]]]

\* rearrange(t, '(n c) -> n c', c=c): n is the outer factor, s = ni * c + ci.
RearrangeNC(t, c) ==
    LET n == Len(t) \div c
    IN  [ni \in 1..n |-> [ci \in 1..c |-> t[(ni - 1) * c + ci]]]

\* rearrange(r, 'n c -> (n c)'): position ni * c + ci takes r[ni][ci].
MergeNC(r, c) ==
    [s \in 1..(Len(r) * c) |-> r[((s - 1) \div c) + 1][((s - 1) % c) + 1]]

\* Mutant of MergeCN: the blocks are concatenated one after the other.
MergeCN_Concat(r, c) == MergeNC(r, c)

\* rearrange(r, 'c n -> (c n)') of a result stacked along n:
\* position ci * n_blocks + ni takes r[ni][ci].
MergeCN(r, c) ==
    LET n == Len(r)
    IN  [s \in 1..(n * c) |-> r[((s - 1) % n) + 1][((s - 1) \div n) + 1]]

\* Mutant of Divides: the length is never checked.
Divides_Unchecked(c, len) == TRUE

\* einops raises EinopsError when the axis length is no multiple of c.
Divides(c, len) == len % c = 0

---------------------------------------------------------------------------
(* _chunk_attention_bias *)

\* lax.dynamic_slice clamps the start index so that the slice fits.
ClampStart(start, size, dim) == Min(Max(start, 0), dim - size)

\* The additive tile for the block pair (qi, ki), broadcast to
\* (query_chunk_size, key_chunk_size).  a.bias is a supplied bias here.
ChunkAttentionBias(a, qi, ki) ==
    LET query_offset == qi * a.qcs
        key_offset == ki * a.kcs
        sq == Min(a.bias.shape[3], a.qcs)
        sk == Min(a.bias.shape[4], a.kcs)
        q0 == ClampStart(query_offset, sq, a.bias.shape[3])
        k0 == ClampStart(key_offset, sk, a.bias.shape[4])
        sliced(r, c) == a.bias.at[q0 + (IF sq = 1 THEN 1 ELSE r)]
                                 [k0 + (IF sk = 1 THEN 1 ELSE c)]
        offset == query_offset - key_offset
        masked(r, c) == a.causal /\ ((r - 1) + offset < (c - 1))
    IN  [r \in 1..a.qcs |-> [c \in 1..a.kcs |->
            IF masked(r, c) THEN FMin ELSE sliced(r, c)]]

---------------------------------------------------------------------------
(* Carry and summarize_chunk *)

Exp2(x) == IF x < -FracBits THEN 0 ELSE 2 ^ (FracBits + x)
One == 2 ^ FracBits

\* a finite score plus finfo.min is finfo.min in floating point
FAdd(s, b) == IF b <= FMin THEN FMin ELSE s + b

InitCarry(c) ==
    [numerator |-> [r \in 1..c |-> 0],
     denominator |-> [r \in 1..c |-> 0],
     max_so_far |-> [r \in 1..c |-> NegInf]]

SummarizeChunk(a, cy, query_chunk, key_chunk, value_chunk, qi, ki) ==
    LET bias_chunk == ChunkAttentionBias(a, qi, ki)
        attn_weights == [r \in 1..a.qcs |-> [c \in 1..a.kcs |->
                            FAdd(query_chunk[r] * key_chunk[c], bias_chunk[r][c])]]
        max_score == [r \in 1..a.qcs |->
                         Max(cy.max_so_far[r], MaxTo(attn_weights[r], a.kcs))]
        exp_weights == [r \in 1..a.qcs |-> [c \in 1..a.kcs |->
                            Exp2(attn_weights[r][c] - max_score[r])]]
        exp_values == [r \in 1..a.qcs |->
                          SumTo([c \in 1..a.kcs |-> exp_weights[r][c] * value_chunk[c]],
                                a.kcs)]
        correction == [r \in 1..a.qcs |-> Exp2(cy.max_so_far[r] - max_score[r])]
    IN  [numerator |-> [r \in 1..a.qcs |->
                           ((cy.numerator[r] * correction[r]) \div One) + exp_values[r]],
         denominator |-> [r \in 1..a.qcs |->
                           ((cy.denominator[r] * correction[r]) \div One)
                               + SumTo(exp_weights[r], a.kcs)],
         max_so_far |-> max_score]

\* Mutant of SkipBlock: the diagonal block is skipped too.
SkipBlock_Diagonal(causal, qi, ki) == causal /\ qi <= ki

\* skip_block of skip_upper_half
SkipBlock(causal, qi, ki) == causal /\ qi < ki

\* Mutant of SkipUpperHalf: a skipped pair resets the carry.
SkipUpperHalf_Reset(a, cy, query_chunk, key_chunk, value_chunk, qi, ki) ==
    IF SkipBlock(a.causal, qi, ki)
    THEN InitCarry(a.qcs)
    ELSE SummarizeChunk(a, cy, query_chunk, key_chunk, value_chunk, qi, ki)

\* skip_upper_half: lax.cond(skip_block, pass the carry through, summarize_chunk)
SkipUpperHalf(a, cy, query_chunk, key_chunk, value_chunk, qi, ki) ==
    IF SkipBlock(a.causal, qi, ki)
    THEN cy
    ELSE SummarizeChunk(a, cy, query_chunk, key_chunk, value_chunk, qi, ki)

\* outputs = numerator / denominator
Outputs(cy, c) == [r \in 1..c |-> Div(cy.numerator[r], cy.denominator[r])]


---------------------------------------------------------------------------
(* blockwise_attn as a function: the two scans folded *)

RECURSIVE ScanKeys(_, _, _, _, _, _, _)
\* lax.scan(skip_upper_half, cy, xs=(key, value, arange(num_kv))) from block ki on
ScanKeys(a, cy, query_chunk, keys, values, qi, ki) ==
    IF ki = Len(keys) THEN cy
    ELSE ScanKeys(a,
                  SkipUpperHalf(a, cy, query_chunk, keys[ki + 1], values[ki + 1], qi, ki),
                  query_chunk, keys, values, qi, ki + 1)

QueryChunkAttention(a, query_chunk, keys, values, qi) ==
    Outputs(ScanKeys(a, InitCarry(a.qcs), query_chunk, keys, values, qi, 0), a.qcs)

\* the value blockwise_attn returns for arguments that pass its checks
BlockwiseAttn(a) ==
    LET qs == RearrangeCN(a.q, a.qcs)
        ks == RearrangeCN(a.k, a.kcs)
        vs == RearrangeCN(a.v, a.kcs)
    IN  MergeNC([n \in 1..Len(qs) |-> QueryChunkAttention(a, qs[n], ks, vs, n - 1)],
                a.qcs)

---------------------------------------------------------------------------
(* Arguments of a call of blockwise_attn *)

\* bias entries: all zero, or 1 on the diagonal i = j
BiasAt(pattern, rows, cols) ==
    [i \in 1..rows |-> [j \in 1..cols |->
        IF pattern = "diag" /\ i = j THEN 1 ELSE 0]]

\* shapes whose axes are 1 or the broadcast target (batch = heads = 1)
GoodBiasShapes(a, b) == {<<1, 1, 1, 1>>, <<1, 1, a, b>>, <<1, 1, a, 1>>, <<1, 1, 1, b>>}

\* shapes with one axis that is neither
BadBiasShapes(a, b) ==
    {<<2, 1, a, b>>, <<1, 2, a, b>>, <<1, 1, a + 1, b>>, <<1, 1, a, b + 1>>}

\* bias = None, a broadcastable bias, or a bias with a bad axis
Biases(a, b) ==
    {NoBias}
    \cup {[shape |-> sh, at |-> BiasAt("diag", sh[3], sh[4])] : sh \in GoodBiasShapes(a, b)}
    \cup {[shape |-> sh, at |-> BiasAt("zero", sh[3], sh[4])] : sh \in BadBiasShapes(a, b)}

\* query and key are unit vectors along the sequence axis; value row j holds j,
\* so an output row shows which key positions it averages with which weights.
InitAttn ==
    /\ op = "attn"
    /\ \E a \in 1..MaxLen, b \in 1..MaxLen :
         \E qc \in 1..a, kc \in 1..b, qh \in 1..a, kh \in 1..b,
            cz \in BOOLEAN, bs \in Biases(a, b) :
           args = [q_len |-> a, kv_len |-> b,
                   q |-> OneHot(a, qh), k |-> OneHot(b, kh), v |-> Iota(b),
                   bias |-> bs, causal |-> cz, qcs |-> qc, kcs |-> kc]
    /\ pc = "call"
    /\ err = "none"
    /\ query = <<>> /\ key = <<>> /\ value = <<>>
    /\ q_idx = 0 /\ k_idx = 0
    /\ carry = NoCarry
    /\ folded = {}
    /\ res = <<>>
    /\ out = <<>>
    /\ lcarry = NoLossCarry
    /\ x_idx = 0
    /\ blocks = <<>>
    /\ pending = {}

---------------------------------------------------------------------------
(* blockwise_attn, step by step *)

\* lines 63-72: scale (head-dim 1: divide by 1), rearrange query, key, value.
\* einops raises when a length is no multiple of its chunk size.
AttnRearrange ==
    /\ op = "attn" /\ pc = "call"
    /\ IF Divides(args.qcs, args.q_len) /\ Divides(args.kcs, args.kv_len)
       THEN /\ query' = RearrangeCN(args.q, args.qcs)
            /\ key' = RearrangeCN(args.k, args.kcs)
            /\ value' = RearrangeCN(args.v, args.kcs)
            /\ pc' = "check_bias"
            /\ err' = err
       ELSE /\ pc' = "error"
            /\ err' = "EinopsError"
            /\ UNCHANGED <<query, key, value>>
    /\ UNCHANGED <<op, args, q_idx, k_idx, carry, folded, res, out, lcarry,
                   x_idx, blocks, pending>>

\* zip(bias.shape, (batch, num_heads, q_len, kv_len)) and its assert
BiasShapeOk(bias, q_len, kv_len) ==
    LET target == <<1, 1, q_len, kv_len>>
    IN  \A d \in 1..4 : bias.shape[d] = 1 \/ bias.shape[d] = target[d]

\* lines 74-85: bias.shape is read unconditionally, so bias = None raises
\* AttributeError; a bad axis fails the assert.  No dropout (deterministic).
AttnCheckBias ==
    /\ op = "attn" /\ pc = "check_bias"
    /\ IF args.bias = NoBias
       THEN pc' = "error" /\ err' = "AttributeError"
       ELSE IF ~BiasShapeOk(args.bias, args.q_len, args.kv_len)
       THEN pc' = "error" /\ err' = "AssertionError"
       ELSE pc' = "q_scan" /\ err' = err
    /\ UNCHANGED <<op, args, query, key, value, q_idx, k_idx, carry, folded,
                   res, out, lcarry, x_idx, blocks, pending>>

\* lines 125-131: one iteration of the outer scan starts; init_carry is built
QueryChunkBegin ==
    /\ op = "attn" /\ pc = "q_scan"
    /\ q_idx < Len(query)
    /\ carry' = InitCarry(args.qcs)
    /\ folded' = {}
    /\ k_idx' = 0
    /\ pc' = "kv_scan"
    /\ UNCHANGED <<op, err, args, query, key, value, q_idx, res, out, lcarry,
                   x_idx, blocks, pending>>

\* lines 112-123, lax.cond true branch: the carry passes through
SkipStep ==
    /\ op = "attn" /\ pc = "kv_scan"
    /\ k_idx < Len(key)
    /\ SkipBlock(args.causal, q_idx, k_idx)
    /\ carry' = SkipUpperHalf(args, carry, query[q_idx + 1], key[k_idx + 1],
                              value[k_idx + 1], q_idx, k_idx)
    /\ k_idx' = k_idx + 1
    /\ UNCHANGED <<op, pc, err, args, query, key, value, q_idx, folded, res,
                   out, lcarry, x_idx, blocks, pending>>

\* lines 112-123, lax.cond false branch: summarize_chunk (lines 92-110)
SummarizeStep ==
    /\ op = "attn" /\ pc = "kv_scan"
    /\ k_idx < Len(key)
    /\ ~SkipBlock(args.causal, q_idx, k_idx)
    /\ carry' = SkipUpperHalf(args, carry, query[q_idx + 1], key[k_idx + 1],
                              value[k_idx + 1], q_idx, k_idx)
    /\ folded' = folded \cup {k_idx}
    /\ k_idx' = k_idx + 1
    /\ UNCHANGED <<op, pc, err, args, query, key, value, q_idx, res, out,
                   lcarry, x_idx, blocks, pending>>

\* lines 133-134: the inner scan is over; outputs = numerator / denominator
QueryChunkEnd ==
    /\ op = "attn" /\ pc = "kv_scan"
    /\ k_idx = Len(key)
    /\ res' = Append(res, Outputs(carry, args.qcs))
    /\ q_idx' = q_idx + 1
    /\ pc' = "q_scan"
    /\ UNCHANGED <<op, err, args, query, key, value, k_idx, carry, folded, out,
                   lcarry, x_idx, blocks, pending>>

\* lines 140-141: rearrange(res, 'n b c h d -> b (n c) h d') and return
AttnMerge ==
    /\ op = "attn" /\ pc = "q_scan"
    /\ q_idx = Len(query)
    /\ out' = MergeNC(res, args.qcs)
    /\ pc' = "done"
    /\ UNCHANGED <<op, err, args, query, key, value, q_idx, k_idx, carry, folded,
                   res, lcarry, x_idx, blocks, pending>>

---------------------------------------------------------------------------
(* blockwise_ffn *)

\* cell.forward_ffn: a stateless transform applied to every position of a block
CellAt(cell, x) == IF cell = "affine" THEN 2 * x + 1 ELSE 1 - x

ForwardFfn(cell, hidden_states) ==
    [i \in 1..Len(hidden_states) |-> CellAt(cell, hidden_states[i])]

InitFfn ==
    /\ op = "ffn"
    /\ \E len \in 1..MaxLen :
         \E inputs \in [1..len -> 0..1], c \in 1..len, cell \in {"affine", "flip"} :
           args = [len |-> len, inputs |-> inputs, chunk_size |-> c, cell |-> cell]
    /\ pc = "call"
    /\ err = "none"
    /\ query = <<>> /\ key = <<>> /\ value = <<>>
    /\ q_idx = 0 /\ k_idx = 0
    /\ carry = NoCarry
    /\ folded = {}
    /\ res = <<>>
    /\ out = <<>>
    /\ lcarry = NoLossCarry
    /\ x_idx = 0
    /\ blocks = <<>>
    /\ pending = {}

\* line 145: rearrange(inputs, 'b (c n) d -> b c n d', c=chunk_size); the scan
\* axis is n, so block ni is the slice [:, :, ni, :]
FfnRearrange ==
    /\ op = "ffn" /\ pc = "call"
    /\ IF Divides(args.chunk_size, args.len)
       THEN /\ blocks' = RearrangeCN(args.inputs, args.chunk_size)
            /\ pending' = 1..(args.len \div args.chunk_size)
            /\ res' = [n \in 1..(args.len \div args.chunk_size) |-> <<>>]
            /\ pc' = "ffn_scan"
            /\ err' = err
       ELSE /\ pc' = "error"
            /\ err' = "EinopsError"
            /\ UNCHANGED <<blocks, pending, res>>
    /\ UNCHANGED <<op, args, query, key, value, q_idx, k_idx, carry, folded,
                   out, lcarry, x_idx>>

\* lines 146-162: one iteration of nn.scan.  The carry is None and the output
\* of a block is stored at the block's own index of the scan axis, so the
\* iteration is taken for any block not yet produced; ascending order, the
\* order of nn.scan, is one of the interleavings.
FfnStep ==
    /\ op = "ffn" /\ pc = "ffn_scan"
    /\ \E n \in pending :
         /\ res' = [res EXCEPT ![n] = ForwardFfn(args.cell, blocks[n])]
         /\ pending' = pending \ {n}
    /\ UNCHANGED <<op, pc, err, args, query, key, value, q_idx, k_idx, carry,
                   folded, out, lcarry, x_idx, blocks>>

\* lines 163-164: rearrange(res, 'b c n d -> b (c n) d') and return
FfnMerge ==
    /\ op = "ffn" /\ pc = "ffn_scan"
    /\ pending = {}
    /\ out' = MergeCN(res, args.chunk_size)
    /\ pc' = "done"
    /\ UNCHANGED <<op, err, args, query, key, value, q_idx, k_idx, carry, folded,
                   res, lcarry, x_idx, blocks, pending>>

---------------------------------------------------------------------------
(* blockwise_cross_entropy *)

NoValid == <<>>

\* log2 in thousandths, for the sums 2^a + 2^b of two logits in 0..1
Log2Milli(x) == CASE x = 2 -> 1000 [] x = 3 -> 1585 [] x = 4 -> 2000

\* jax.nn.log_softmax(logits)[token], base 2, in thousandths; token ids are 0-based
LogSoftmaxAt(row, token) ==
    1000 * row[token + 1] - Log2Milli(SumTo([j \in 1..Len(row) |-> 2 ^ row[j]], Len(row)))

RECURSIVE ArgmaxFrom(_, _, _)
\* jnp.argmax: the first index of the largest entry (0-based)
ArgmaxFrom(row, j, best) ==
    IF j > Len(row) THEN best - 1
    ELSE ArgmaxFrom(row, j + 1, IF row[j] > row[best] THEN j ELSE best)

Argmax(row) == ArgmaxFrom(row, 2, 1)

\* x / jnp.maximum(vsum, 1e-10)
DivByLength(x, vsum) ==
    IF vsum > 0 THEN Div(x, vsum)
    ELSE IF x = 0 THEN <<0, 1>>
    ELSE Div(x * (10 ^ EpsExp), 1)

\* loss_acc of one block b = [logits, tokens, valid]
TokenLogProb(b) ==
    [i \in 1..Len(b.tokens) |->
        IF b.valid[i] > 0 THEN LogSoftmaxAt(b.logits[i], b.tokens[i]) ELSE 0]

Correct(b) ==
    [i \in 1..Len(b.tokens) |->
        IF b.valid[i] > 0 /\ Argmax(b.logits[i]) = b.tokens[i] THEN 1 ELSE 0]

ValidSum(b) == SumTo(b.valid, Len(b.valid))

\* Mutant of LossAndAccuracy: a block without valid tokens is not counted.
LossAndAccuracy_SkipEmpty(cy, b) ==
    LET n == Len(b.tokens)
    IN  <<FracAdd(cy[1], DivByLength(SumTo(TokenLogProb(b), n), ValidSum(b))),
          FracAdd(cy[2], DivByLength(SumTo(Correct(b), n), ValidSum(b))),
          IF ValidSum(b) > 0 THEN cy[3] + 1 ELSE cy[3]>>

\* _loss_and_accuracy
LossAndAccuracy(cy, b) ==
    LET n == Len(b.tokens)
    IN  <<FracAdd(cy[1], DivByLength(SumTo(TokenLogProb(b), n), ValidSum(b))),
          FracAdd(cy[2], DivByLength(SumTo(Correct(b), n), ValidSum(b))),
          cy[3] + 1>>

\* lines 168-173: valid defaults to ones
ValidOrOnes(a) == IF a.valid = NoValid THEN [i \in 1..a.n |-> 1] ELSE a.valid

\* lines 204-206: rearrange '(n c) ... -> n c ...' of logits, tokens and valid
XentBlocks(a) ==
    LET l == RearrangeNC(a.logits, a.chunk_size)
        t == RearrangeNC(a.tokens, a.chunk_size)
        v == RearrangeNC(ValidOrOnes(a), a.chunk_size)
    IN  [n \in 1..(a.n \div a.chunk_size) |->
            [logits |-> l[n], tokens |-> t[n], valid |-> v[n]]]

LogitRows == {<<0, 0>>, <<1, 0>>}

InitXent ==
    /\ op = "xent"
    /\ \E n \in 1..MaxTok :
         \E logits \in [1..n -> LogitRows], tokens \in [1..n -> 0..1],
            valid \in [1..n -> 0..1] \cup {NoValid}, c \in 1..n :
           args = [n |-> n, logits |-> logits, tokens |-> tokens, valid |-> valid,
                   chunk_size |-> c]
    /\ pc = "call"
    /\ err = "none"
    /\ query = <<>> /\ key = <<>> /\ value = <<>>
    /\ q_idx = 0 /\ k_idx = 0
    /\ carry = NoCarry
    /\ folded = {}
    /\ res = <<>>
    /\ out = <<>>
    /\ lcarry = NoLossCarry
    /\ x_idx = 0
    /\ blocks = <<>>
    /\ pending = {}

\* lines 168-173 and 204-206
XentRearrange ==
    /\ op = "xent" /\ pc = "call"
    /\ IF Divides(args.chunk_size, args.n)
       THEN /\ blocks' = XentBlocks(args)
            /\ pc' = "xent_begin"
            /\ err' = err
       ELSE /\ pc' = "error"
            /\ err' = "EinopsError"
            /\ blocks' = blocks
    /\ UNCHANGED <<op, args, query, key, value, q_idx, k_idx, carry, folded,
                   res, out, lcarry, x_idx, pending>>

\* lines 207-208: the scan starts from (0.0, 0.0, 0)
XentScanBegin ==
    /\ op = "xent" /\ pc = "xent_begin"
    /\ lcarry' = <<<<0, 1>>, <<0, 1>>, 0>>
    /\ x_idx' = 0
    /\ pc' = "xent_scan"
    /\ UNCHANGED <<op, err, args, query, key, value, q_idx, k_idx, carry, folded,
                   res, out, blocks, pending>>

\* lines 195-203: one iteration of the scan, in ascending block order
XentStep ==
    /\ op = "xent" /\ pc = "xent_scan"
    /\ x_idx < Len(blocks)
    /\ lcarry' = LossAndAccuracy(lcarry, blocks[x_idx + 1])
    /\ x_idx' = x_idx + 1
    /\ UNCHANGED <<op, pc, err, args, query, key, value, q_idx, k_idx, carry,
                   folded, res, out, blocks, pending>>

\* lines 210-212: loss = -loss / num, accuracy = accuracy / num
XentFinal ==
    /\ op = "xent" /\ pc = "xent_scan"
    /\ x_idx = Len(blocks)
    /\ out' = <<Div(-lcarry[1][1], lcarry[1][2] * lcarry[3]),
                Div(lcarry[2][1], lcarry[2][2] * lcarry[3])>>
    /\ pc' = "done"
    /\ UNCHANGED <<op, err, args, query, key, value, q_idx, k_idx, carry, folded,
                   res, lcarry, x_idx, blocks, pending>>

---------------------------------------------------------------------------
(* The specification: one call of one of the three functions *)

Init == InitAttn \/ InitFfn \/ InitXent

Next ==
    \/ AttnRearrange
    \/ AttnCheckBias
    \/ QueryChunkBegin
    \/ SkipStep
    \/ SummarizeStep
    \/ QueryChunkEnd
    \/ AttnMerge
    \/ FfnRearrange
    \/ FfnStep
    \/ FfnMerge
    \/ XentRearrange
    \/ XentScanBegin
    \/ XentStep
    \/ XentFinal

Spec == Init /\ [][Next]_vars

---------------------------------------------------------------------------
(* Reference computations the properties compare against *)

\* bias entry for the pair of sequence positions (i, j), with broadcasting
BiasEntry(bias, i, j) ==
    bias.at[IF bias.shape[3] = 1 THEN 1 ELSE i][IF bias.shape[4] = 1 THEN 1 ELSE j]

\* score of key position j for query position i in unchunked attention
DirectScore(a, i, j) ==
    IF a.causal /\ j > i THEN FMin ELSE a.q[i] * a.k[j] + BiasEntry(a.bias, i, j)

\* direct softmax attention over the whole sequences
DirectAttn(a) ==
    [i \in 1..a.q_len |->
        LET sc == [j \in 1..a.kv_len |-> DirectScore(a, i, j)]
            m == MaxTo(sc, a.kv_len)
            w == [j \in 1..a.kv_len |-> Exp2(sc[j] - m)]
        IN  Div(SumTo([j \in 1..a.kv_len |-> w[j] * a.v[j]], a.kv_len),
                SumTo(w, a.kv_len))]

\* sequence positions (1-based) held by block n (0-based) after the rearrange
BlockPositions(len, c, n) ==
    LET b == RearrangeCN(Iota(len), c)[n + 1]
    IN  {b[ci] : ci \in 1..c}

\* the half-open range [n * c, (n + 1) * c), in 1-based positions
ContiguousRange(c, n) == (n * c + 1)..((n + 1) * c)

AttnDone == op = "attn" /\ pc = "done"

\* the inner scan of query block q_idx has visited every key block
InnerScanOver == op = "attn" /\ pc = "kv_scan" /\ k_idx = Len(key)

---------------------------------------------------------------------------
(* C1: chunk-size invariance of blockwise_attn *)

\* C1: the output of blockwise_attn is the same for every pair of divisor chunk
\* sizes: it equals the output for chunk sizes = full sequence lengths, which
\* equals direct unchunked softmax attention.
C1_ChunkSizeInvariance ==
    AttnDone =>
        /\ out = BlockwiseAttn([args EXCEPT !.qcs = args.q_len, !.kcs = args.kv_len])
        /\ out = DirectAttn(args)

---------------------------------------------------------------------------
(* C2: causal locality *)

\* C2: with causal = true, changing the key and value at a position j > i
\* leaves output[i] unchanged, for every divisor choice of chunk sizes.
C2_CausalLocality ==
    (AttnDone /\ args.causal) =>
        \A i \in 1..args.q_len, j \in 1..args.kv_len :
            j > i =>
                \A kj \in 0..1, vj \in {0, j} :
                    BlockwiseAttn([args EXCEPT !.k[j] = kj, !.v[j] = vj])[i] = out[i]

---------------------------------------------------------------------------
(* C7: blocks are contiguous ranges, reassembly restores sequence order *)

\* C7: query block n and key/value block n hold exactly the positions of the
\* half-open range [n * chunk_size, (n + 1) * chunk_size), and the output row
\* at position p is the result computed for the query at input position p.
C7_ContiguousBlocks ==
    (op = "attn" /\ pc \in {"q_scan", "kv_scan", "done"}) =>
        /\ \A n \in 0..(Len(query) - 1) :
               /\ BlockPositions(args.q_len, args.qcs, n) = ContiguousRange(args.qcs, n)
               /\ \A ci \in 1..args.qcs : query[n + 1][ci] = args.q[n * args.qcs + ci]
        /\ \A n \in 0..(Len(key) - 1) :
               /\ BlockPositions(args.kv_len, args.kcs, n) = ContiguousRange(args.kcs, n)
               /\ \A ci \in 1..args.kcs :
                      /\ key[n + 1][ci] = args.k[n * args.kcs + ci]
                      /\ value[n + 1][ci] = args.v[n * args.kcs + ci]
        /\ pc = "done" =>
               MergeNC(RearrangeCN(Iota(args.q_len), args.qcs), args.qcs) = Iota(args.q_len)

---------------------------------------------------------------------------
(* C8: the causal skip policy *)

\* C8: with causal = true a block pair is skipped exactly when
\* key_block_index > query_block_index, every skipped pair holds only key
\* positions strictly after every query position of the query block, and with
\* causal = false no pair is skipped.
C8_SkipPolicySound ==
    (op = "attn" /\ pc = "kv_scan" /\ k_idx < Len(key)) =>
        /\ SkipBlock(args.causal, q_idx, k_idx) <=> (args.causal /\ k_idx > q_idx)
        /\ SkipBlock(args.causal, q_idx, k_idx) =>
               \A qp \in BlockPositions(args.q_len, args.qcs, q_idx),
                  kp \in BlockPositions(args.kv_len, args.kcs, k_idx) : kp > qp

---------------------------------------------------------------------------
(* C9: at least one key block is folded before the division *)

\* C9 as stated: with causal = true, for every query block i the pair (i, i)
\* exists among the enumerated key blocks and is not skipped, whatever the
\* query length, key length and chunk sizes.
C9_DiagonalPairProcessed ==
    (InnerScanOver /\ args.causal) =>
        /\ q_idx < Len(key)
        /\ q_idx \in folded

\* C9 amended: with causal = true, key block 0 is enumerated and never skipped
\* for any query block, so at least one key block has been folded into the
\* carry before the division and every denominator is positive; the diagonal
\* pair (i, i) is folded whenever it exists, i.e. whenever i < num_key_blocks.
C9_FirstBlockProcessed ==
    (InnerScanOver /\ args.causal) =>
        /\ 0 \in folded
        /\ q_idx < Len(key) => q_idx \in folded
        /\ \A r \in 1..args.qcs : carry.denominator[r] > 0

\* a causal query block beyond the last key block has finished its inner scan
C9_Witness ==
    /\ InnerScanOver /\ args.causal
    /\ q_idx >= Len(key)
    /\ folded = 0..(Len(key) - 1)
    /\ Len(key) >= 2

---------------------------------------------------------------------------
(* C10: lifecycle of the Carry *)

C10_Begin ==
    (op = "attn" /\ pc = "q_scan" /\ pc' = "kv_scan") =>
        /\ carry' = InitCarry(args.qcs)
        /\ folded' = {}
        /\ k_idx' = 0

C10_ScanStep ==
    (op = "attn" /\ pc = "kv_scan" /\ pc' = "kv_scan") =>
        /\ k_idx < Len(key)
        /\ k_idx' = k_idx + 1
        /\ IF args.causal /\ k_idx > q_idx
           THEN /\ carry' = carry
                /\ folded' = folded
           ELSE /\ carry' = SummarizeChunk(args, carry, query[q_idx + 1], key[k_idx + 1],
                                           value[k_idx + 1], q_idx, k_idx)
                /\ k_idx \notin folded
                /\ folded' = folded \cup {k_idx}
        /\ \A r \in 1..args.qcs : carry'.max_so_far[r] >= carry.max_so_far[r]

C10_End ==
    (op = "attn" /\ pc = "kv_scan" /\ pc' = "q_scan") =>
        /\ k_idx = Len(key)
        /\ folded = {k \in 0..(Len(key) - 1) : ~(args.causal /\ k > q_idx)}

\* C10: every query block starts from a fresh carry (0, 0, -inf); key blocks
\* are visited in ascending order 0..num_key_blocks-1; the carry is updated
\* exactly once per non-skipped key block and is unchanged by a skipped one;
\* the running max never decreases from one step to the next.
C10_CarryLifecycle == [][C10_Begin /\ C10_ScanStep /\ C10_End]_vars

\* a later query block has skipped a key block after folding two, and its
\* running max has risen above the first score
C10_Witness ==
    /\ InnerScanOver /\ args.causal
    /\ q_idx >= 1
    /\ Cardinality(folded) >= 2
    /\ Cardinality(folded) < Len(key)
    /\ \E r \in 1..args.qcs : carry.max_so_far[r] = 2

---------------------------------------------------------------------------
(* C5: divisibility errors are raised eagerly *)

Indivisible ==
    CASE op = "attn" -> args.q_len % args.qcs # 0 \/ args.kv_len % args.kcs # 0
      [] op = "ffn" -> args.len % args.chunk_size # 0
      [] op = "xent" -> args.n % args.chunk_size # 0

NothingStarted ==
    /\ carry = NoCarry /\ lcarry = NoLossCarry
    /\ res = <<>> /\ out = <<>> /\ blocks = <<>> /\ pending = {}
    /\ folded = {}
    /\ q_idx = 0 /\ k_idx = 0 /\ x_idx = 0

\* C5: in the three functions a sequence length that is no multiple of the
\* chunk size ends the call with the divisibility error before any scan runs
\* and before any accumulator exists; a length that is a multiple raises none.
C5_DivisibilityEager ==
    /\ Indivisible =>
           /\ pc = "call" \/ (pc = "error" /\ err = "EinopsError")
           /\ NothingStarted
    /\ ~Indivisible => err # "EinopsError"

\* the query length is a multiple, the key length is not, and the call failed
C5_Witness ==
    /\ op = "attn" /\ pc = "error" /\ err = "EinopsError"
    /\ args.q_len % args.qcs = 0
    /\ args.kv_len % args.kcs # 0
    /\ args.qcs > 1

---------------------------------------------------------------------------
(* C6: bias is optional *)

\* C6: bias = None passes validation; a supplied bias is rejected, before any
\* block loop runs, exactly when one of its four axes is neither 1 nor its
\* broadcast target (batch, heads, query length, key length).
C6_BiasOptional ==
    (op = "attn" /\ ~Indivisible /\ pc \notin {"call", "check_bias"}) =>
        IF args.bias = NoBias
        THEN pc # "error"
        ELSE /\ pc = "error" <=>
                   \E d \in 1..4 :
                       /\ args.bias.shape[d] # 1
                       /\ args.bias.shape[d] # <<1, 1, args.q_len, args.kv_len>>[d]
             /\ pc = "error" => NothingStarted

---------------------------------------------------------------------------
(* C3: blockwise_ffn equals the transform of the whole sequence *)

\* C3: for every chunk size dividing the sequence length the output equals the
\* transform applied to the un-chunked sequence: every input position lies in
\* exactly one block and its result returns to the same position, in whatever
\* order the blocks are processed.
C3_FfnChunkInvariance ==
    (op = "ffn" /\ pc \in {"ffn_scan", "done"}) =>
        /\ \A s \in 1..args.len :
               Cardinality({<<n, ci>> \in (1..Len(blocks)) \X (1..args.chunk_size) :
                               RearrangeCN(Iota(args.len), args.chunk_size)[n][ci] = s}) = 1
        /\ MergeCN(blocks, args.chunk_size) = args.inputs
        /\ pc = "done" => out = ForwardFfn(args.cell, args.inputs)

\* a call with several blocks of several positions has returned a sequence
\* that is not constant
C3_Witness ==
    /\ op = "ffn" /\ pc = "done"
    /\ args.chunk_size > 1
    /\ args.len > args.chunk_size
    /\ \E s \in 1..args.len : out[s] # out[1]

---------------------------------------------------------------------------
(* C4: blockwise_cross_entropy *)

RECURSIVE SumOver(_, _)
\* the sum of f over the set of indices S
SumOver(f, S) ==
    IF S = {} THEN 0
    ELSE LET i == CHOOSE x \in S : TRUE IN f[i] + SumOver(f, S \ {i})

RefValid(a) == [i \in 1..a.n |-> IF a.valid = NoValid THEN 1 ELSE a.valid[i]]

RefLogProb(a) ==
    [i \in 1..a.n |->
        IF RefValid(a)[i] > 0 THEN LogSoftmaxAt(a.logits[i], a.tokens[i]) ELSE 0]

RefCorrect(a) ==
    [i \in 1..a.n |->
        IF RefValid(a)[i] > 0 /\ Argmax(a.logits[i]) = a.tokens[i] THEN 1 ELSE 0]

\* sum(masked term) / max(valid count, 1e-10) over the positions S: a set
\* without valid tokens gives 0
RefRatio(a, term, S) ==
    IF SumOver(RefValid(a), S) = 0 THEN <<0, 1>>
    ELSE Div(SumOver(term, S), SumOver(RefValid(a), S))

RECURSIVE RefBlockSum(_, _, _)
\* the sum of the per-block ratios of blocks 1..n, blocks being the contiguous
\* ranges of chunk_size positions
RefBlockSum(a, term, n) ==
    IF n = 0 THEN <<0, 1>>
    ELSE FracAdd(RefBlockSum(a, term, n - 1),
                 RefRatio(a, term, ((n - 1) * a.chunk_size + 1)..(n * a.chunk_size)))

\* the mean of the per-block ratios over ALL n / chunk_size blocks
RefBlockMean(a, term) ==
    LET nb == a.n \div a.chunk_size
        t == RefBlockSum(a, term, nb)
    IN  Div(t[1], t[2] * nb)

Negate(x) == <<-x[1], x[2]>>

\* C4: with chunk_size = N loss and accuracy are the direct masked
\* cross-entropy and masked top-1 accuracy; for a smaller chunk size they are
\* the mean over all N / chunk_size blocks of the per-block ratios, a block
\* without valid tokens adding 0 and still counting in the divisor.
C4_LossChunkEquivalence ==
    (op = "xent" /\ pc = "done") =>
        /\ lcarry[3] = args.n \div args.chunk_size
        /\ out = <<Negate(RefBlockMean(args, RefLogProb(args))),
                   RefBlockMean(args, RefCorrect(args))>>
        /\ args.chunk_size = args.n =>
               out = <<Negate(RefRatio(args, RefLogProb(args), 1..args.n)),
                       RefRatio(args, RefCorrect(args), 1..args.n)>>

\* a call with several blocks, one of them without a valid token and one with
\* a valid, correctly predicted token
C4_Witness ==
    /\ op = "xent" /\ pc = "done"
    /\ Len(blocks) >= 2
    /\ \E n \in 1..Len(blocks) : ValidSum(blocks[n]) = 0
    /\ out[2][1] > 0
    /\ out[1][1] > 0

=============================================================================
